---------------------------- MODULE Spec2Model ----------------------------
(***************************************************************************)
(* Fetch-and-upsert flow of the Pokemon application:                       *)
(*   services.py   PokemonAPIService.fetch_pokemon, _save_json_to_file,    *)
(*                 _log_error                                              *)
(*   models.py     Pokemon (Entity Cache), APIRequest (Request Log)        *)
(*   views.py      PokemonSearchView.form_valid, PokemonAPIView.get        *)
(*   management/commands/fetch_pokemon.py   Command.handle                 *)
(*                                                                         *)
(* Strings that the code transforms (the queried name) are sequences of    *)
(* one-character strings, so that lower() and strip() are computed.        *)
(* A nullable column or an optional value is a set with at most one        *)
(* element: {} is None / NULL.                                            *)
(***************************************************************************)
EXTENDS Integers, Sequences, FiniteSets, TLC

VARIABLES
    pokemons,       \* table Pokemon: a set of rows
    requests,       \* table APIRequest, in insertion order
    files,          \* default_storage: the files saved under pokemon_data/
    calls,          \* number of resolutions started so far (bounded)
    cur,            \* the latest resolution: its input, provider outcome and result
    prev,           \* the resolution before it
    latest,         \* pokemon_id -> the data of the latest successful fetch of it
    storageFaulty,  \* whether writes to the database / file storage may fail
    pc,             \* concurrent callers: position in PokemonAPIView.get
    loc             \* concurrent callers: local variables

vars == <<pokemons, requests, files, calls, cur, prev, latest, storageFaulty, pc, loc>>

----------------------------------------------------------------------------
(* Bounds and input samples *)

MaxCalls == 2

\* Names typed by users / given on the command line.
Names == { <<"a">>, <<"A">>, <<"a", " ">>, <<"a", "a">> }

\* Values the provider can put into a document.
Ids == {1, 2}
ProviderNames == { <<"a">>, <<"A">> }

----------------------------------------------------------------------------
(* str.lower() and str.strip() *)

LowerChar(c) == IF c = "A" THEN "a" ELSE c

Lower(s) == [i \in 1..Len(s) |-> LowerChar(s[i])]

IsSpace(c) == c = " "

RECURSIVE LStrip(_)
LStrip(s) == IF s # <<>> /\ IsSpace(Head(s)) THEN LStrip(Tail(s)) ELSE s

RECURSIVE RStrip(_)
RStrip(s) ==
    IF s # <<>> /\ IsSpace(s[Len(s)]) THEN RStrip(SubSeq(s, 1, Len(s) - 1)) ELSE s

Strip(s) == RStrip(LStrip(s))

\* Mutant of Normalize: the name is trimmed but not lowercased.
StripOnly(s) == Strip(s)

\* services.py:30   pokemon_name.lower().strip()
Normalize(s) == Strip(Lower(s))

IsLower(s) == Lower(s) = s

\* services.py:16,31   url = f"{self.BASE_URL}{pokemon_name}/"
Url(name) == <<"https://pokeapi.co/api/v2/pokemon/", Normalize(name), "/">>

NoUrl == <<>>


----------------------------------------------------------------------------
(* The provider: what one GET of BASE_URL + name + "/" can produce *)

None == {}

\* Two versions of the physical attributes of a resource; the second has no
\* base_experience key (the key is optional, services.py:59 uses data.get).
Versions ==
    { [height |-> 3, weight |-> 40, base_experience |-> {64}],
      [height |-> 5, weight |-> 69, base_experience |-> None] }

Doc(i, n, v) ==
    LET required == [id |-> i, name |-> n, height |-> v.height, weight |-> v.weight]
    IN  IF v.base_experience = None
        THEN required
        ELSE [k \in DOMAIN required \cup {"base_experience"} |->
                 IF k = "base_experience" THEN 64 ELSE required[k]]

WellFormedDocs == { Doc(i, n, v) : i \in Ids, n \in ProviderNames, v \in Versions }

\* A JSON object without the 'height' key (data['height'] raises KeyError).
MalformedDoc == [id |-> 1, name |-> <<"a">>, weight |-> 40]

Docs == WellFormedDocs \cup {MalformedDoc}

EmptyDoc == [name |-> <<>>]

Statuses == {200, 404, 500}

\* transport: the GET returned ("ok") or raised Timeout / ConnectionError;
\* json: whether response.json() can decode the body; data: the decoded body.
Outcomes ==
    { [transport |-> t, status |-> 0, json |-> FALSE, data |-> EmptyDoc] :
        t \in {"timeout", "connection"} }
    \cup { [transport |-> "ok", status |-> s, json |-> FALSE, data |-> EmptyDoc] :
        s \in Statuses }
    \cup { [transport |-> "ok", status |-> 200, json |-> TRUE, data |-> d] : d \in Docs }

NoOutcome == [transport |-> "none", status |-> 0, json |-> FALSE, data |-> EmptyDoc]

\* Which writes fail during one call: the APIRequest row of line 38, the
\* APIRequest row of _log_error, the Pokemon upsert, the JSON file.
NoFaults == [log |-> FALSE, errlog |-> FALSE, cache |-> FALSE, file |-> FALSE]

Faults ==
    IF storageFaulty
    THEN [log : BOOLEAN, errlog : BOOLEAN, cache : BOOLEAN, file : BOOLEAN]
    ELSE {NoFaults}

----------------------------------------------------------------------------
(* Messages: the f-strings of services.py, kept as (template, arguments) *)

Msg(text, name, code, detail) ==
    [text |-> text, name |-> name, code |-> code, detail |-> detail]

NoMsg == Msg("", <<>>, 0, "")

HttpMsg(status) == Msg("HTTP {status}", <<>>, status, "")

NotFoundMsg(n) == Msg("Pokemon '{name}' not found", n, 0, "")

ApiFailedMsg(status) == Msg("API request failed with status {status}", <<>>, status, "")

TimeoutMsg(n) == Msg("Request timeout for Pokemon: {name}", n, 0, "")

ConnectionMsg(n) == Msg("Connection error when fetching Pokemon: {name}", n, 0, "")

UnexpectedMsg(e) == Msg("Unexpected error: {e}", <<>>, 0, e)

\* views.py:121   'not found' in error
ContainsNotFound(m) == m.text = "Pokemon '{name}' not found"

----------------------------------------------------------------------------
(* Entity Cache: model Pokemon and QuerySet.update_or_create *)

\* The auto-increment primary key; rows are never deleted by this code.
NextPk(rows) == Cardinality(rows) + 1

\* services.py:55-61   the defaults of update_or_create
Defaults(data) ==
    [name            |-> data.name,
     height          |-> data.height,
     weight          |-> data.weight,
     base_experience |-> IF "base_experience" \in DOMAIN data
                         THEN {data.base_experience} ELSE None,
     raw_data        |-> data]

Row(pk, id, d) ==
    [pk |-> pk, pokemon_id |-> id, name |-> d.name, height |-> d.height,
     weight |-> d.weight, base_experience |-> d.base_experience,
     raw_data |-> d.raw_data]

\* Mutant of UniqueViolation: pokemon_id is not declared unique.
UniqueNameOnly(rows, r) == \E x \in rows : x.pk # r.pk /\ x.name = r.name

\* models.py:9-10   pokemon_id and name are unique=True: a write that would
\* leave another row with the same pokemon_id or the same name is refused.
UniqueViolation(rows, r) ==
    \E x \in rows : x.pk # r.pk /\ (x.pokemon_id = r.pokemon_id \/ x.name = r.name)

\* The result of a statement on the table.
Done(rows, obj) == [ok |-> TRUE, rows |-> rows, obj |-> {obj}, err |-> ""]

Raised(rows, e) == [ok |-> FALSE, rows |-> rows, obj |-> None, err |-> e]

\* INSERT of a new row.
InsertRow(rows, id, d, fault) ==
    LET r == Row(NextPk(rows), id, d)
    IN  IF fault THEN Raised(rows, "DatabaseError")
        ELSE IF UniqueViolation(rows, r) THEN Raised(rows, "IntegrityError")
        ELSE Done(rows \cup {r}, r)

\* obj.save() of a row read before: UPDATE ... WHERE pk = obj.pk, all columns.
SaveRow(rows, obj, d, fault) ==
    LET r == Row(obj.pk, obj.pokemon_id, d)
    IN  IF fault THEN Raised(rows, "DatabaseError")
        ELSE IF UniqueViolation(rows, r) THEN Raised(rows, "IntegrityError")
        ELSE Done({x \in rows : x.pk # obj.pk} \cup {r}, r)

\* QuerySet.get(pokemon_id=id)
GetById(rows, id) == {x \in rows : x.pokemon_id = id}

\* QuerySet.get(name=n)
GetByName(rows, n) == {x \in rows : x.name = n}

\* Mutant of UpdateOrCreate: get_or_create, which leaves a row found as it is.
GetOrCreateOnly(rows, id, d, fault) ==
    LET found == GetById(rows, id)
    IN  IF found = {} THEN InsertRow(rows, id, d, fault)
        ELSE Done(rows, CHOOSE x \in found : TRUE)

\* Mutant of UpdateOrCreate: create, which always inserts.
CreateOnly(rows, id, d, fault) == InsertRow(rows, id, d, fault)

\* services.py:53-62   Pokemon.objects.update_or_create(pokemon_id=..., defaults=...)
\* run without interference: get; if absent create, and on IntegrityError get
\* again; set the defaults on the row found and save it.
UpdateOrCreate(rows, id, d, fault) ==
    LET found == GetById(rows, id)
    IN  IF Cardinality(found) > 1 THEN Raised(rows, "MultipleObjectsReturned")
        ELSE IF found = {}
        THEN InsertRow(rows, id, d, fault)
        ELSE SaveRow(rows, CHOOSE x \in found : TRUE, d, fault)

----------------------------------------------------------------------------
(* Request Log: model APIRequest *)

\* Mutant of ApiRequestEntry: success means "no server error".
EntrySuccessBelow500(n, o) ==
    [pokemon_name     |-> n,
     success          |-> o.status < 500,
     http_status_code |-> {o.status},
     error_message    |-> IF o.status = 200 THEN NoMsg ELSE HttpMsg(o.status),
     response_data    |-> IF o.status = 200 THEN {o.data} ELSE None]

\* services.py:38-44
ApiRequestEntry(n, o) ==
    [pokemon_name     |-> n,
     success          |-> o.status = 200,
     http_status_code |-> {o.status},
     error_message    |-> IF o.status = 200 THEN NoMsg ELSE HttpMsg(o.status),
     response_data    |-> IF o.status = 200 THEN {o.data} ELSE None]

\* services.py:112-116
ErrorEntry(n, m) ==
    [pokemon_name     |-> n,
     success          |-> FALSE,
     http_status_code |-> None,
     error_message    |-> m,
     response_data    |-> None]

----------------------------------------------------------------------------
(* PokemonAPIService *)

\* What a call hands back: a returned (pokemon, success, error) or an exception.
Returned(st, pokemon, success, error) ==
    [st |-> st, outcome |-> "return", pokemon |-> pokemon, success |-> success,
     error |-> error]

Propagated(st, e) ==
    [st |-> st, outcome |-> "raise", pokemon |-> None, success |-> FALSE,
     error |-> UnexpectedMsg(e)]

\* services.py:110-116 and the tail of each except clause (lines 79-95):
\* _log_error is called inside the handler, so its own exception propagates.
LogErrorAndReturn(st, n, m, f) ==
    IF f.errlog
    THEN Propagated(st, "DatabaseError")
    ELSE Returned([st EXCEPT !.requests = Append(@, ErrorEntry(n, m))], None, FALSE, m)

\* services.py:97-108   best effort: every exception is swallowed.  The file
\* name takes data['id'], so a body without it saves nothing.
SaveJsonToFile(st, data, n, f) ==
    IF "id" \in DOMAIN data /\ ~f.file
    THEN [st EXCEPT !.files = Append(@, [name |-> n, id |-> data.id, content |-> data])]
    ELSE st

RequiredKeys == {"id", "name", "height", "weight"}

\* services.py:46-67   the status 200 branch, after the APIRequest row is written
Store200(st, n, data, f) ==
    LET st2 == SaveJsonToFile(st, data, n, f)
    IN  IF ~(RequiredKeys \subseteq DOMAIN data)
        THEN LogErrorAndReturn(st2, n, UnexpectedMsg("KeyError"), f)
        ELSE LET u == UpdateOrCreate(st2.pokemons, data.id, Defaults(data), f.cache)
             IN  IF u.ok
                 THEN Returned([st2 EXCEPT !.pokemons = u.rows], u.obj, TRUE, NoMsg)
                 ELSE LogErrorAndReturn(st2, n, UnexpectedMsg(u.err), f)

\* services.py:25-95   fetch_pokemon(pokemon_name) on store st, with provider
\* outcome o and write faults f.
FetchPokemon(st, raw, o, f) ==
    LET n == Normalize(raw)
    IN  CASE o.transport = "timeout" -> LogErrorAndReturn(st, n, TimeoutMsg(n), f)
          [] o.transport = "connection" -> LogErrorAndReturn(st, n, ConnectionMsg(n), f)
          [] OTHER ->
               IF o.status = 200 /\ ~o.json
               THEN LogErrorAndReturn(st, n, UnexpectedMsg("JSONDecodeError"), f)
               ELSE IF f.log
               THEN LogErrorAndReturn(st, n, UnexpectedMsg("DatabaseError"), f)
               ELSE LET st1 == [st EXCEPT !.requests = Append(@, ApiRequestEntry(n, o))]
                    IN  IF o.status = 200 THEN Store200(st1, n, o.data, f)
                        ELSE IF o.status = 404
                        THEN Returned(st1, None, FALSE, NotFoundMsg(n))
                        ELSE Returned(st1, None, FALSE, ApiFailedMsg(o.status))

----------------------------------------------------------------------------
(* Entry points, one request at a time *)

Callers == {1, 2}

Store == [pokemons |-> pokemons, requests |-> requests, files |-> files]

\* The record of one resolution: entry point, name as given, whether the
\* provider was called, at which URL and with what outcome, and what the caller got back
\* (http: the status of the JSON response of PokemonAPIView, else None).
Call(entry, raw, provider, url, o, r, http) ==
    [entry |-> entry, raw |-> raw, provider |-> provider, url |-> url, o |-> o,
     outcome |-> r.outcome, pokemon |-> r.pokemon, success |-> r.success,
     error |-> r.error, http |-> http]

NoCall ==
    [entry |-> "none", raw |-> <<>>, provider |-> FALSE, url |-> NoUrl, o |-> NoOutcome,
     outcome |-> "none", pokemon |-> None, success |-> FALSE,
     error |-> NoMsg, http |-> None]

\* Locals of a caller of PokemonAPIView.get: the name, the provider outcome, the
\* row update_or_create read, whether its INSERT lost a race, and the result.
IdleLoc ==
    [raw |-> <<>>, o |-> NoOutcome, obj |-> None, raced |-> FALSE,
     outcome |-> "none", pokemon |-> None, success |-> FALSE, error |-> NoMsg]

Init ==
    /\ pokemons = {}
    /\ requests = <<>>
    /\ files = <<>>
    /\ calls = 0
    /\ cur = NoCall
    /\ prev = NoCall
    /\ latest = [i \in Ids |-> None]
    /\ storageFaulty = FALSE
    /\ pc = [p \in Callers |-> "idle"]
    /\ loc = [p \in Callers |-> IdleLoc]

\* The state after fetch_pokemon(arg) came back with r.
Commit(entry, raw, arg, o, r, http) ==
    /\ pokemons' = r.st.pokemons
    /\ requests' = r.st.requests
    /\ files' = r.st.files
    /\ calls' = calls + 1
    /\ prev' = cur
    /\ cur' = Call(entry, raw, TRUE, Url(arg), o, r, http)
    /\ latest' = IF r.success THEN [latest EXCEPT ![o.data.id] = {o.data}] ELSE latest
    /\ UNCHANGED <<storageFaulty, pc, loc>>

\* views.py:47-63   PokemonSearchView.form_valid.  The form field is a required
\* CharField (views.py:16), whose cleaned value is the stripped text.
SearchFormValid(raw) ==
    /\ calls < MaxCalls
    /\ Strip(raw) # <<>>
    /\ \E o \in Outcomes, f \in Faults :
          Commit("search", raw, Strip(raw), o, FetchPokemon(Store, Strip(raw), o, f), None)

\* fetch_pokemon.py:17-32   one iteration of the loop of Command.handle over
\* options['pokemon_names']; a run of the command is a run of iterations.
CommandFetch(raw) ==
    /\ calls < MaxCalls
    /\ \E o \in Outcomes, f \in Faults :
          Commit("command", raw, raw, o, FetchPokemon(Store, raw, o, f), None)

\* views.py:121   status=404 if 'not found' in error else 500; an exception
\* that leaves the view is answered with 500.
JsonStatus(r) ==
    IF r.outcome = "raise" THEN 500
    ELSE IF r.success THEN 200
    ELSE IF ContainsNotFound(r.error) THEN 404 ELSE 500

\* views.py:74-121   PokemonAPIView.get
ApiViewGet(raw) ==
    /\ calls < MaxCalls
    /\ LET found == GetByName(pokemons, Lower(raw))
       IN  IF found # {}
           THEN /\ calls' = calls + 1
                /\ prev' = cur
                /\ cur' = Call("api", raw, FALSE, NoUrl, NoOutcome,
                               Returned(Store, found, TRUE, NoMsg), {200})
                /\ UNCHANGED <<pokemons, requests, files, latest, storageFaulty, pc, loc>>
           ELSE \E o \in Outcomes, f \in Faults :
                   LET r == FetchPokemon(Store, raw, o, f)
                   IN  Commit("api", raw, raw, o, r, {JsonStatus(r)})

Next ==
    \/ \E raw \in Names : SearchFormValid(raw)
    \/ \E raw \in Names : CommandFetch(raw)
    \/ \E raw \in Names : ApiViewGet(raw)

Spec == Init /\ [][Next]_vars

\* The same program on a database and a file storage whose writes may fail.
InitFault ==
    /\ pokemons = {}
    /\ requests = <<>>
    /\ files = <<>>
    /\ calls = 0
    /\ cur = NoCall
    /\ prev = NoCall
    /\ latest = [i \in Ids |-> None]
    /\ storageFaulty = TRUE
    /\ pc = [p \in Callers |-> "idle"]
    /\ loc = [p \in Callers |-> IdleLoc]

SpecFault == InitFault /\ [][Next]_vars

----------------------------------------------------------------------------
(* Two concurrent callers of PokemonAPIView.get, statement by statement *)

EmptyStore == [pokemons |-> {}, requests |-> <<>>, files |-> <<>>]

Ok200(d) == [transport |-> "ok", status |-> 200, json |-> TRUE, data |-> d]

\* Caches the callers can find: empty, or left by one earlier successful
\* fetch_pokemon("a") of a document.
SeedStores ==
    {EmptyStore} \cup
    { FetchPokemon(EmptyStore, <<"a">>, Ok200(d), NoFaults).st : d \in WellFormedDocs }

InitConc ==
    /\ \E st \in SeedStores :
          /\ pokemons = st.pokemons
          /\ requests = st.requests
          /\ files = st.files
          /\ latest = [i \in Ids |->
                         IF GetById(st.pokemons, i) = {} THEN None
                         ELSE {(CHOOSE x \in st.pokemons : x.pokemon_id = i).raw_data}]
    /\ calls = 0
    /\ cur = NoCall
    /\ prev = NoCall
    /\ storageFaulty = FALSE
    /\ pc = [p \in Callers |-> "idle"]
    /\ loc = [p \in Callers |-> IdleLoc]

Ghosts == <<calls, cur, prev, storageFaulty>>

\* The caller moves on to label l with locals changed to l2.
Goto(p, l, l2) ==
    /\ pc' = [pc EXCEPT ![p] = l]
    /\ loc' = [loc EXCEPT ![p] = l2]

\* The caller comes back with r; the statements of r are committed.
Finish(p, l2, r) ==
    /\ pokemons' = r.st.pokemons
    /\ requests' = r.st.requests
    /\ files' = r.st.files
    /\ Goto(p, "done", [l2 EXCEPT !.outcome = r.outcome, !.pokemon = r.pokemon,
                                  !.success = r.success, !.error = r.error])

\* views.py:74   the request arrives
Begin(p, raw) ==
    /\ pc[p] = "idle"
    /\ Goto(p, "lookup", [loc[p] EXCEPT !.raw = raw])
    /\ UNCHANGED <<pokemons, requests, files, latest, Ghosts>>

\* views.py:78   Pokemon.objects.get(name=pokemon_name.lower())
Lookup(p) ==
    /\ pc[p] = "lookup"
    /\ LET found == GetByName(pokemons, Lower(loc[p].raw))
       IN  IF found # {}
           THEN Finish(p, loc[p], Returned(Store, found, TRUE, NoMsg))
           ELSE /\ Goto(p, "request", loc[p])
                /\ UNCHANGED <<pokemons, requests, files>>
    /\ UNCHANGED <<latest, Ghosts>>

\* services.py:30-50   the GET, the APIRequest row and the JSON file; the
\* caller goes on to update_or_create when the body has the required keys.
Request(p) ==
    /\ pc[p] = "request"
    /\ \E o \in Outcomes :
          LET n  == Normalize(loc[p].raw)
              st1 == [Store EXCEPT !.requests = Append(@, ApiRequestEntry(n, o))]
              st2 == SaveJsonToFile(st1, o.data, n, NoFaults)
          IN  IF o.transport = "ok" /\ o.status = 200 /\ o.json
                 /\ RequiredKeys \subseteq DOMAIN o.data
              THEN /\ requests' = st2.requests
                   /\ files' = st2.files
                   /\ pokemons' = pokemons
                   /\ Goto(p, "get", [loc[p] EXCEPT !.o = o])
              ELSE Finish(p, [loc[p] EXCEPT !.o = o],
                          FetchPokemon(Store, loc[p].raw, o, NoFaults))
    /\ UNCHANGED <<latest, Ghosts>>


\* The except clause of services.py:91-95 around update_or_create.
FailUpsert(p, e) ==
    Finish(p, loc[p],
           LogErrorAndReturn(Store, Normalize(loc[p].raw), UnexpectedMsg(e), NoFaults))

\* update_or_create wrote the row r for this caller's document.
Wrote(p, u) ==
    /\ Finish(p, loc[p], Returned([Store EXCEPT !.pokemons = u.rows], u.obj, TRUE, NoMsg))
    /\ latest' = [latest EXCEPT ![loc[p].o.data.id] = {loc[p].o.data}]

\* update_or_create, step 1: get(pokemon_id=data['id'])
UpsertGet(p) ==
    /\ pc[p] = "get"
    /\ LET found == GetById(pokemons, loc[p].o.data.id)
       IN  IF Cardinality(found) > 1
           THEN FailUpsert(p, "MultipleObjectsReturned")
           ELSE /\ Goto(p, IF found = {} THEN "create" ELSE "save",
                        [loc[p] EXCEPT !.obj = found])
                /\ UNCHANGED <<pokemons, requests, files>>
    /\ UNCHANGED <<latest, Ghosts>>

\* update_or_create, step 2 when the row was absent: create inside a savepoint;
\* an IntegrityError sends the caller back to get.
UpsertCreate(p) ==
    /\ pc[p] = "create"
    /\ LET d == loc[p].o.data
           u == InsertRow(pokemons, d.id, Defaults(d), FALSE)
       IN  IF u.ok
           THEN Wrote(p, u)
           ELSE /\ Goto(p, "reget", [loc[p] EXCEPT !.raced = TRUE])
                /\ UNCHANGED <<pokemons, requests, files, latest>>
    /\ UNCHANGED Ghosts

\* update_or_create, step 3 after the IntegrityError: get again; the error is
\* raised when the row is still absent (the conflict was on name).
UpsertReget(p) ==
    /\ pc[p] = "reget"
    /\ LET found == GetById(pokemons, loc[p].o.data.id)
       IN  IF Cardinality(found) # 1
           THEN FailUpsert(p, "IntegrityError")
           ELSE /\ Goto(p, "save", [loc[p] EXCEPT !.obj = found])
                /\ UNCHANGED <<pokemons, requests, files>>
    /\ UNCHANGED <<latest, Ghosts>>

\* update_or_create, last step when the row exists: set the defaults on the
\* object read and save() it.
UpsertSave(p) ==
    /\ pc[p] = "save"
    /\ LET d == loc[p].o.data
           u == SaveRow(pokemons, CHOOSE x \in loc[p].obj : TRUE, Defaults(d), FALSE)
       IN  IF u.ok
           THEN Wrote(p, u)
           ELSE FailUpsert(p, u.err) /\ UNCHANGED latest
    /\ UNCHANGED Ghosts

NextConc ==
    \/ \E p \in Callers, raw \in Names : Begin(p, raw)
    \/ \E p \in Callers : Lookup(p)
    \/ \E p \in Callers : Request(p)
    \/ \E p \in Callers : UpsertGet(p)
    \/ \E p \in Callers : UpsertCreate(p)
    \/ \E p \in Callers : UpsertReget(p)
    \/ \E p \in Callers : UpsertSave(p)

SpecConc == InitConc /\ [][NextConc]_vars

----------------------------------------------------------------------------
(* Properties *)

\* A step that is one resolution (by any entry point).
IsCall == calls' = calls + 1

\* The rows a name resolves to in the cache as it is before the step.
Cached(name) == GetByName(pokemons, Normalize(name))

Pks(rows) == { <<x.pk, x.pokemon_id>> : x \in rows }

\* The fields of row x are those of provider document d.
Holds(x, d) ==
    /\ x.pokemon_id = d.id
    /\ x.name = d.name
    /\ x.height = d.height
    /\ x.weight = d.weight
    /\ x.base_experience =
          (IF "base_experience" \in DOMAIN d THEN {d.base_experience} ELSE None)
    /\ x.raw_data = d

\* C1: after any sequence of fetch_pokemon calls the cache holds at most one
\* row per pokemon_id, and for every id fetched successfully the one row with
\* that id holds the name, height, weight, base_experience and raw_data of the
\* latest successful provider response for it.
C1_OneRowPerIdWithLatestValues ==
    /\ \A x, y \in pokemons : x.pokemon_id = y.pokemon_id => x = y
    /\ \A i \in Ids :
          latest[i] # None =>
             \E x \in pokemons :
                /\ GetById(pokemons, i) = {x}
                /\ \A d \in latest[i] : Holds(x, d)

\* C1 witness: two successful fetches in a row of the same id with different
\* field values.
C1_Witness ==
    /\ prev.provider /\ prev.success
    /\ cur.provider /\ cur.success
    /\ prev.o.data.id = cur.o.data.id
    /\ prev.o.data.height # cur.o.data.height
    /\ prev.o.data.name # cur.o.data.name

\* C2 (as claimed): every fetch_pokemon invocation that calls the provider
\* appends exactly one APIRequest row, whatever the outcome.
C2_ExactlyOneLogEntryPerProviderCall ==
    [][ (IsCall /\ cur'.provider) => Len(requests') = Len(requests) + 1 ]_vars

\* C3 (as claimed): fetch_pokemon never raises; it returns a
\* (pokemon, success, error) value, (None, False, message) on every failure,
\* also when a write to the Entity Cache or to the Request Log fails.
C3_FetchNeverRaises ==
    cur.provider =>
       /\ cur.outcome = "return"
       /\ ~cur.success => (cur.pokemon = None /\ cur.error # NoMsg)

\* C4: when the provider answers 404, fetch_pokemon returns
\* (None, False, message containing 'not found'), the Request Log gains one
\* entry, with success = false, and the Pokemon rows are unchanged.
C4_NotFoundLoggedAndNoRow ==
    [][ (IsCall /\ cur'.provider /\ cur'.o.transport = "ok" /\ cur'.o.status = 404) =>
           /\ cur'.outcome = "return"
           /\ cur'.pokemon = None
           /\ ~cur'.success
           /\ ContainsNotFound(cur'.error)
           /\ Len(requests') = Len(requests) + 1
           /\ SubSeq(requests', 1, Len(requests)) = requests
           /\ ~requests'[Len(requests')].success
           /\ requests'[Len(requests')].http_status_code = {404}
           /\ pokemons' = pokemons ]_vars

\* C4 witness: a 404 answered while the cache holds a row.
C4_Witness ==
    /\ cur.provider /\ cur.o.transport = "ok" /\ cur.o.status = 404
    /\ pokemons # {}
    /\ Len(requests) = 2

\* C5 (as claimed): whenever a row with the normalized (trimmed, lowercased)
\* queried name is in the cache, resolving the name returns that row without
\* a provider call and without a new APIRequest row, by every entry point.
C5_CachedNameIsServedFromCache ==
    [][ (IsCall /\ Cached(cur'.raw) # {}) =>
           /\ ~cur'.provider
           /\ requests' = requests
           /\ cur'.pokemon = Cached(cur'.raw) ]_vars

\* C6: when two callers resolve concurrently, in no state of any interleaving
\* do two rows share a pokemon_id; and when both missed the cache, both
\* received the same provider id and both came back with success, exactly one
\* row has that id and it holds the document of the caller that wrote last.
C6_ConcurrentUpsertsKeepOneRow ==
    /\ \A x, y \in pokemons : x.pokemon_id = y.pokemon_id => x = y
    /\ \A p, q \in Callers :
          ( /\ p # q
            /\ pc[p] = "done" /\ pc[q] = "done"
            /\ loc[p].o.transport = "ok" /\ loc[q].o.transport = "ok"
            /\ loc[p].success /\ loc[q].success
            /\ loc[p].o.data.id = loc[q].o.data.id )
          => \E x \in pokemons :
                /\ GetById(pokemons, loc[p].o.data.id) = {x}
                /\ latest[x.pokemon_id] \subseteq {loc[p].o.data, loc[q].o.data}
                /\ latest[x.pokemon_id] # None
                /\ \A d \in latest[x.pokemon_id] : Holds(x, d)

\* C6 witness: both callers missed the cache, got the same id with different
\* field values, one lost the INSERT race, and both came back with success.
C6_Witness ==
    /\ pc[1] = "done" /\ pc[2] = "done"
    /\ loc[1].success /\ loc[2].success
    /\ loc[1].o.transport = "ok" /\ loc[2].o.transport = "ok"
    /\ loc[1].o.data.id = loc[2].o.data.id
    /\ loc[1].o.data # loc[2].o.data
    /\ loc[1].raced \/ loc[2].raced

\* C7 (as claimed): every row's name is lowercase and no two rows share a
\* name, for any provider response.
C7_NamesLowercaseAndUnique ==
    /\ \A x \in pokemons : IsLower(x.name)
    /\ \A x, y \in pokemons : x.name = y.name => x = y

\* The provider is a function of the URL and its data did not change between
\* the previous resolution and this step's.
ProviderUnchanged ==
    (cur.provider /\ cur'.provider /\ cur.url = cur'.url) => cur'.o = cur.o

\* C8: resolving a name and then, by the same entry point, a name that differs
\* from it only in letter case, with unchanged provider data: when the first
\* resolution yields an Entity, the second yields the same one (same row,
\* same pokemon_id) and creates no row.
C8_CaseVariantsResolveToSameEntity ==
    [][ ( /\ IsCall
          /\ cur.entry = cur'.entry
          /\ cur.raw # cur'.raw /\ Lower(cur.raw) = Lower(cur'.raw)
          /\ cur.success
          /\ ProviderUnchanged ) =>
           /\ cur'.outcome = "return" /\ cur'.success
           /\ Pks(cur'.pokemon) = Pks(cur.pokemon)
           /\ Pks(pokemons') = Pks(pokemons) ]_vars

\* C8 witness: "A" then "a" (or the reverse) by the JSON API view, the second
\* answered with the row the first one stored.
C8_Witness ==
    /\ prev.entry = "api" /\ cur.entry = "api"
    /\ prev.raw # cur.raw /\ Lower(prev.raw) = Lower(cur.raw)
    /\ prev.provider /\ prev.success
    /\ ~cur.provider /\ cur.success
    /\ Pks(cur.pokemon) = Pks(prev.pokemon)

\* C9: resolving the same name twice in a row (same entry point) with
\* unchanged provider data: when the first resolution yields an Entity, the
\* second yields the same one, there is still one row for it, and the row's
\* height, weight and raw_data are what they were after the first.
C9_ResolveTwiceIsIdempotent ==
    [][ ( /\ IsCall
          /\ cur.entry = cur'.entry
          /\ cur.raw = cur'.raw
          /\ cur.success
          /\ ProviderUnchanged ) =>
           /\ cur'.outcome = "return" /\ cur'.success
           /\ Pks(cur'.pokemon) = Pks(cur.pokemon)
           /\ Pks(pokemons') = Pks(pokemons)
           /\ \A x \in cur.pokemon :
                 \E y \in pokemons' :
                    /\ y.pk = x.pk /\ y.pokemon_id = x.pokemon_id
                    /\ y.height = x.height /\ y.weight = x.weight
                    /\ y.raw_data = x.raw_data ]_vars

\* C9 witness: the same name fetched twice in a row from the provider, with
\* the same answer, both successful.
C9_Witness ==
    /\ prev.entry = cur.entry
    /\ prev.raw = cur.raw
    /\ prev.provider /\ cur.provider
    /\ prev.o = cur.o
    /\ prev.success /\ cur.success

\* C10 (as claimed): a call appends an APIRequest row with success = true only
\* if it upserts the Entity and returns (pokemon, True, None).
C10_LogSuccessAgreesWithOutcome ==
    [][ ( /\ IsCall
          /\ \E k \in (Len(requests) + 1)..Len(requests') : requests'[k].success ) =>
           /\ cur'.outcome = "return" /\ cur'.success
           /\ cur'.pokemon # None
           /\ cur'.error = NoMsg ]_vars

============================================================================
